---- MODULE Spec2Model ----
(***************************************************************************)
(* Model of the QUIC echo server of src/src/main.rs: two EchoServer        *)
(* listeners driven by overlapped (completion based) Winsock I/O, the      *)
(* handshake gate in front of the quiche engine, the connection registry   *)
(* and the retry-token functions.                                          *)
(***************************************************************************)
EXTENDS Naturals, Sequences, FiniteSets, TLC

VARIABLES
    pc,            \* where main is: in a listener's recv(), or waiting
    recving,       \* EchoServer.recving, per listener
    sending,       \* EchoServer.sending, per listener
    recv_op,       \* overlapped WSARecvFrom calls issued and not yet completed
    send_op,       \* overlapped WSASendTo calls issued and not yet completed
    recv_event,    \* recv_overlapped.hEvent is signaled
    send_event,    \* send_overlapped.hEvent is signaled
    recv_err,      \* the overlapped receive last completed ended in an error
    fired,         \* the signaled handles of main, in the order they were signaled
    out,           \* the shared send buffer
    send_len,      \* EchoServer.send_len
    clients,       \* ClientMap: connection id -> engine connection
    conn_id_seed,  \* QuicServer.conn_id_seed
    known,         \* server-chosen ids the peers have been sent in a Retry
    pass,          \* the pass of recv() just run: the datagram in buf, and what was done
    tok            \* harness of the retry-token functions: inputs, token, result

vars == <<pc, recving, sending, recv_op, send_op, recv_event, send_event, recv_err,
          fired, out, send_len, clients, conn_id_seed, known, pass, tok>>

srv_vars == <<pc, recving, sending, recv_op, send_op, recv_event, send_event,
              recv_err, fired, out, send_len, clients, conn_id_seed, known, pass>>

----------------------------------------------------------------------------
(* Bytes, addresses and connection ids *)

\* quiche::MAX_CONN_ID_LEN
MAX_CONN_ID_LEN == 20

\* b"quiche"
TAG == <<113, 117, 105, 99, 104, 101>>

\* token[..n]
Take(s, n) == SubSeq(s, 1, n)

\* token[n..]
Drop(s, n) == SubSeq(s, n + 1, Len(s))

\* std::net::IpAddr: the family and a.octets()
V4(o) == [fam |-> "V4", octets |-> o]
V6(o) == [fam |-> "V6", octets |-> o]

\* std::net::SocketAddr
SockAddr(ip, port) == [ip |-> ip, port |-> port]

\* Option<ConnectionId>
None == [some |-> FALSE]
Some(v) == [some |-> TRUE, val |-> v]

----------------------------------------------------------------------------
(* Retry tokens *)

\* match src.ip() { V4(a) => a.octets().to_vec(), V6(a) => a.octets().to_vec() }
ip_octets(src) == src.ip.octets

mint_token(hdr_dcid, src) == TAG \o ip_octets(src) \o hdr_dcid

\* validate_token taking every presented address for a 4-byte IPv4 address
validate_token_v4only(src, token) ==
    IF Len(token) < 6 THEN None
    ELSE IF Take(token, 6) # TAG THEN None
    ELSE LET rest == Drop(token, 6)
         IN  IF Len(rest) < 4 \/ Take(rest, 4) # Take(ip_octets(src), 4)
             THEN None
             ELSE Some(Drop(rest, 4))

validate_token(src, token) ==
    IF Len(token) < 6 THEN None
    ELSE IF Take(token, 6) # TAG THEN None
    ELSE LET rest == Drop(token, 6)
             addr == ip_octets(src)
         IN  IF Len(rest) < Len(addr) \/ Take(rest, Len(addr)) # addr
             THEN None
             ELSE Some(Drop(rest, Len(addr)))

----------------------------------------------------------------------------
(* The keyed hash deriving the routing identifier *)

RECURSIVE Mix(_, _)
\* the bytes data[j..] folded into one position-weighted sum
Mix(data, j) ==
    IF j > Len(data) THEN 0
    ELSE (data[j] * j + 31 * Mix(data, j + 1)) % 65521

\* ring::hmac::sign(key, data): a 32-byte tag, a deterministic function of
\* the key and of every byte and the length of the data
hmac_sign(key, data) ==
    LET m == Mix(data, 1) + 7 * Len(data)
    IN  [i \in 1..32 |-> (key * i + m * (2 * i + 1)) % 256]

\* let conn_id = &conn_id.as_ref()[..quiche::MAX_CONN_ID_LEN]
RoutedId(key, dcid) == Take(hmac_sign(key, dcid), MAX_CONN_ID_LEN)

----------------------------------------------------------------------------
(* Datagrams *)

\* quiche::PROTOCOL_VERSION, the four bytes of the version field
PROTOCOL_VERSION == <<0, 0, 0, 1>>

\* quiche::version_is_supported: version 1 and the drafts 27, 28 and 29
version_is_supported(v) ==
    v \in {PROTOCOL_VERSION, <<255, 0, 0, 27>>, <<255, 0, 0, 28>>, <<255, 0, 0, 29>>}

\* a datagram quiche::Header::from_slice rejects
Malformed(from) == [hdr_ok |-> FALSE, from |-> from]

\* a long-header Initial packet
InitialPkt(from, version, dcid, scid, token) ==
    [hdr_ok |-> TRUE, ty |-> "Initial", version |-> version, dcid |-> dcid,
     scid |-> scid, token |-> token, from |-> from]

\* a short-header packet: no version, no source id, no token
ShortPkt(from, dcid) ==
    [hdr_ok |-> TRUE, ty |-> "Short", version |-> <<0, 0, 0, 0>>, dcid |-> dcid,
     scid |-> <<>>, token |-> <<>>, from |-> from]

\* the receive buffer holds nothing that is still to be processed
NoDgram == [hdr_ok |-> FALSE, from |-> <<>>]

\* what quiche::negotiate_version(&hdr.scid, &hdr.dcid, out) writes
VersionNegotiation(hdr) ==
    [kind |-> "vn", dcid |-> hdr.scid, scid |-> hdr.dcid, token |-> <<>>]

\* what quiche::retry(&hdr.scid, &hdr.dcid, &scid, &new_token, hdr.version, out) writes
Retry(hdr, scid, new_token) ==
    [kind |-> "retry", dcid |-> hdr.scid, scid |-> scid, token |-> new_token]

\* what client.conn.send(&mut self.out) writes for the connection under key k
EnginePkt(k) == [kind |-> "pkt", dcid |-> k, scid |-> <<>>, token |-> <<>>]

\* out: [0; 1350]
EmptyOut == [kind |-> "zero", dcid |-> <<>>, scid |-> <<>>, token |-> <<>>]

\* config.set_max_send_udp_payload_size(1350)
MAX_SEND_UDP_PAYLOAD_SIZE == 1350

\* the byte count the engine returns for what it wrote
WireLen(c) ==
    CASE c.kind = "vn" -> 7 + Len(c.dcid) + Len(c.scid) + 4 * 4
      [] c.kind = "retry" -> 7 + Len(c.dcid) + Len(c.scid) + Len(c.token) + 16
      [] c.kind = "pkt" -> MAX_SEND_UDP_PAYLOAD_SIZE
      [] OTHER -> 0

----------------------------------------------------------------------------
(* The handshake gate *)

\* Client { conn }: the engine handle made by quiche::accept(&scid, odcid, from),
\* and what the model keeps of the engine's state: whether it is open, closing or
\* closed, how many datagrams it has ready to send, and its peer
NewClient(scid, odcid, from) ==
    [st |-> "open", outq |-> 0, peer |-> from]

\* QuicServer::handle_handshake: the result, and the writes into out and write
handle_handshake(from, hdr, conn_id, out0, write0) ==
    IF hdr.ty # "Initial"
    THEN [res |-> "ProtocolError", out |-> out0, write |-> write0, wrote |-> FALSE]
    ELSE IF ~version_is_supported(hdr.version)
    THEN [res |-> "VersionNegotiation", out |-> VersionNegotiation(hdr),
          write |-> WireLen(VersionNegotiation(hdr)), wrote |-> TRUE]
    ELSE IF hdr.token = <<>>
    THEN LET pkt == Retry(hdr, conn_id, mint_token(hdr.dcid, from))
         IN  [res |-> "StatelessRetry", out |-> pkt, write |-> WireLen(pkt),
              wrote |-> TRUE]
    ELSE LET odcid == validate_token(from, hdr.token)
         IN  IF ~odcid.some
             THEN [res |-> "ProtocolError", out |-> out0, write |-> write0,
                   wrote |-> FALSE]
             ELSE IF Len(conn_id) # Len(hdr.dcid)
             THEN [res |-> "ProtocolError", out |-> out0, write |-> write0,
                   wrote |-> FALSE]
             ELSE [res |-> "Ok", out |-> out0, write |-> write0, wrote |-> FALSE,
                   client |-> NewClient(hdr.dcid, odcid.val, from)]

----------------------------------------------------------------------------
(* One receive pass over a listener: process_packets, then send_packets *)

\* sendto: WSASendTo on the buffer. The first `budget` calls of a pass complete at
\* once (ret == 0, the event is consumed again); the next one is WSA_IO_PENDING.
sendto(s, content, len, to) ==
    LET e == [buf |-> content, len |-> len, to |-> to, busy |-> s.sending]
        learnt == IF content.kind = "retry" THEN {content.scid} ELSE {}
    IN  IF s.budget > 0
        THEN [s EXCEPT !.budget = @ - 1, !.ret = TRUE, !.known = @ \cup learnt,
                       !.sent = Append(@, e)]
        ELSE [s EXCEPT !.send_op = @ + 1, !.ret = FALSE, !.known = @ \cup learnt,
                       !.sent = Append(@, e)]

\* process_packets, the arm of the three handshake errors: the reply
reply_unguarded(s, from) ==
    LET r == [sendto(s, s.out, s.send_len, from) EXCEPT !.replied = @ + 1]
    IN  IF ~r.ret THEN [r EXCEPT !.sending = TRUE] ELSE r

reply_unmarked(s, from) ==
    IF ~s.sending
    THEN [sendto(s, s.out, s.send_len, from) EXCEPT !.replied = @ + 1]
    ELSE s

reply(s, from) ==
    IF ~s.sending
    THEN LET r == [sendto(s, s.out, s.send_len, from) EXCEPT !.replied = @ + 1]
         IN  IF ~r.ret THEN [r EXCEPT !.sending = TRUE] ELSE r
    ELSE s

\* self.clients.insert(hdr.dcid.clone(), client)
insert(cl, key, client) ==
    [k \in DOMAIN cl \cup {key} |-> IF k = key THEN client ELSE cl[k]]

\* the key process_packets inserts an accepted connection under
accept_key_routed(hdr, conn_id) == conn_id

accept_key(hdr, conn_id) == hdr.dcid

\* client.conn.recv(pkt_buf, recv_info) and, on success, the echo of the readable
\* streams: the engine's answer eng decides the result, whether the connection is
\* now closed, and how many datagrams it has ready
ingest_close_on_err(s, k, eng) ==
    LET c == s.clients[k]
        st == IF eng.closed THEN "closed"
              ELSE IF eng.ingest = "err" /\ c.st = "open" THEN "closing" ELSE c.st
        outq == IF st = "closed" THEN 0
                ELSE IF eng.ingest = "ok" THEN eng.outq ELSE c.outq
    IN  [s EXCEPT !.clients[k].st = st, !.clients[k].outq = outq,
                  !.ingest = eng.ingest, !.key = k,
                  !.closed_called = IF eng.ingest = "err" THEN @ \cup {k} ELSE @]

ingest(s, k, eng) ==
    LET c == s.clients[k]
        st == IF eng.closed THEN "closed" ELSE c.st
        outq == IF st = "closed" THEN 0
                ELSE IF eng.ingest = "ok" THEN eng.outq ELSE c.outq
    IN  [s EXCEPT !.clients[k].st = st, !.clients[k].outq = outq,
                  !.ingest = eng.ingest, !.key = k]

\* the lookup of process_packets: the raw id first, then the routed id
lookup_routed_first(keys, dcid, conn_id) ==
    IF conn_id \in keys THEN Some(conn_id)
    ELSE IF dcid \in keys THEN Some(dcid)
    ELSE None

lookup(keys, dcid, conn_id) ==
    IF dcid \notin keys /\ conn_id \notin keys THEN None
    ELSE IF dcid \in keys THEN Some(dcid)
    ELSE Some(conn_id)

process_packets(s, seed, d, eng) ==
    IF ~d.hdr_ok THEN [s EXCEPT !.route = "badhdr"]
    ELSE
    LET conn_id == RoutedId(seed, d.dcid)
        found == lookup(DOMAIN s.clients, d.dcid, conn_id)
    IN  IF ~found.some
        THEN LET h == handle_handshake(d.from, d, conn_id, s.out, s.send_len)
                 s1 == [s EXCEPT !.route = "handshake", !.gate = h.res,
                                 !.out = h.out, !.send_len = h.write,
                                 !.wrote = @ \/ (h.wrote /\ s.sending)]
             IN  IF h.res = "Ok"
                 THEN LET key == accept_key(d, conn_id)
                      IN  ingest([s1 EXCEPT !.clients = insert(@, key, h.client)],
                                 key, eng)
                 ELSE reply(s1, d.from)
        ELSE ingest([s EXCEPT !.route = IF found.val = d.dcid THEN "raw" ELSE "routed"],
                    found.val, eng)

\* client.conn.close(false, 0x1, b"fail")
close_noop(c) == c

close(c) == [c EXCEPT !.st = IF @ = "open" THEN "closing" ELSE @]

\* c.conn.is_closed()
is_closed(c) == c.st = "closed"

RECURSIVE send_loop(_, _, _)
\* send_packets, the inner loop over one connection
send_loop(s, k, failing) ==
    LET c == s.clients[k]
    IN  IF k \in failing
        THEN [s EXCEPT !.clients[k] = close(c), !.closed_called = @ \cup {k}]
        ELSE IF is_closed(c) \/ c.outq = 0 THEN s
        ELSE LET s1 == [s EXCEPT !.out = EnginePkt(k), !.clients[k].outq = @ - 1,
                                 !.pulled = @ + 1, !.wrote = @ \/ s.sending]
             IN  IF ~s1.sending
                 THEN LET r == sendto(s1, s1.out, WireLen(s1.out), c.peer)
                      IN  IF ~r.ret THEN [r EXCEPT !.sending = TRUE]
                          ELSE send_loop(r, k, failing)
                 ELSE send_loop([s1 EXCEPT !.dropped = @ + 1], k, failing)

RECURSIVE send_each(_, _, _, _)
\* send_packets, the outer loop: self.clients.values_mut() in the map's order
send_each(s, order, i, failing) ==
    IF i > Len(order) THEN s
    ELSE send_each(send_loop(s, order[i], failing), order, i + 1, failing)

\* self.clients.retain(|_, c| !c.conn.is_closed())
retain_one_closing(cl) ==
    LET live == {x \in DOMAIN cl : ~is_closed(cl[x])}
        closing == {x \in live : cl[x].st = "closing"}
        keep == IF closing = {} THEN live ELSE live \ {CHOOSE x \in closing : TRUE}
    IN  [k \in keep |-> cl[k]]

retain_all(cl) == cl

retain(cl) ==
    [k \in {x \in DOMAIN cl : ~is_closed(cl[x])} |-> cl[k]]

send_packets_no_collect(s, order, failing) ==
    LET s1 == send_each(s, order, 1, failing)
    IN  [s1 EXCEPT !.gc_reg = s1.clients, !.send_failed = failing]

send_packets(s, order, failing) ==
    LET s1 == send_each(s, order, 1, failing)
    IN  [s1 EXCEPT !.clients = retain(@),
                   !.removed = DOMAIN s1.clients \ DOMAIN retain(s1.clients),
                   !.gc_reg = s1.clients,
                   !.send_failed = failing]

\* the orders a HashMap of these keys may be iterated in
Orders(keys) ==
    {o \in [1..Cardinality(keys) -> keys] :
        \A i, j \in 1..Cardinality(keys) : o[i] = o[j] => i = j}

----------------------------------------------------------------------------
(* Bounded inputs of the token functions *)

\* connection-id values differ by their first byte 1..MaxIdBase+1
MaxIdBase == 1
\* hosts 10.0.0.1 .. 10.0.0.(MaxHost+1)
MaxHost == 1
\* UDP source ports 4000 .. 4000+MaxPort
MaxPort == 1

\* a connection id of n bytes: base+1, base+2, ...
Id(base, n) == [i \in 1..n |-> base + i]

\* lengths of header destination ids: empty, short, 12 bytes, MAX_CONN_ID_LEN
IdLens == {0, 8, 12, MAX_CONN_ID_LEN}

TokDcids == {Id(b, n) : b \in 0..MaxIdBase, n \in IdLens}

Zeros(n) == [i \in 1..n |-> 0]

HostOctets(h) == <<10, 0, 0, h>>

\* IPv4 peers, IPv6 peers whose first four octets are those of an IPv4 peer
\* (followed by zeros or by the first 12 bytes of an id), and unrelated IPv6 peers
IpsV4 == {V4(HostOctets(h)) : h \in 1..(MaxHost + 1)}
IpsV6 ==
    {V6(HostOctets(h) \o Zeros(12)) : h \in 1..(MaxHost + 1)}
    \cup {V6(HostOctets(h) \o Take(Id(b, MAX_CONN_ID_LEN), 12)) :
            h \in 1..(MaxHost + 1), b \in 0..MaxIdBase}
    \cup {V6(<<32, 1, 13, 184>> \o Zeros(11) \o <<h>>) : h \in 1..(MaxHost + 1)}
Ports == {4000 + p : p \in 0..MaxPort}
TokAddrs == {SockAddr(ip, p) : ip \in IpsV4 \cup IpsV6, p \in Ports}

----------------------------------------------------------------------------
(* Harness applying mint_token and validate_token *)

InitTok ==
    tok = [pc |-> "new", dcid |-> <<>>, src |-> SockAddr(V4(HostOctets(1)), 4000),
           token |-> <<>>, intact |-> FALSE,
           from |-> SockAddr(V4(HostOctets(1)), 4000), result |-> None]

\* let new_token = mint_token(&hdr, from)
TokMint(d, a) ==
    /\ tok.pc = "new"
    /\ tok' = [tok EXCEPT !.pc = "minted", !.dcid = d, !.src = a,
                          !.token = mint_token(d, a), !.intact = TRUE,
                          !.from = a, !.result = None]

\* a peer alters the token it was given: a wrong tag byte, or fewer than 6 bytes
TokTamper(kind) ==
    /\ tok.pc = "minted"
    /\ tok.intact
    /\ tok' = [tok EXCEPT !.intact = FALSE,
                          !.token = IF kind = "tag"
                                    THEN <<0>> \o Drop(tok.token, 1)
                                    ELSE Take(tok.token, 5)]

\* let odcid = validate_token(from, token)
TokValidate(b) ==
    /\ tok.pc = "minted"
    /\ tok' = [tok EXCEPT !.pc = "validated", !.from = b,
                          !.result = validate_token(b, tok.token)]

NextToken ==
    \/ \E d \in TokDcids, a \in TokAddrs : TokMint(d, a)
    \/ \E k \in {"tag", "short"} : TokTamper(k)
    \/ \E b \in TokAddrs : TokValidate(b)

----------------------------------------------------------------------------
(* Bounded inputs of the listeners *)

\* datagrams an engine connection may have ready after one ingest
MaxOut == 1
\* connections a listener's registry holds at once
MaxClients == 2
\* sends of one pass that may complete at once before one is left pending
MaxBurst == 1

\* server (port 4443) and server1 (port 4567)
Listeners == {0, 1}

\* the HMAC key generated for a listener's QuicServer
SeedOf(l) == 11 + 12 * l

\* the peer the datagrams come from, and another peer
PeerA == SockAddr(V4(HostOctets(1)), 4000)
PeerB == SockAddr(V4(HostOctets(2)), 4000)

\* destination ids a client chooses: one shorter than MAX_CONN_ID_LEN, one as long
ShortId == Id(0, 8)
LongId == Id(0, MAX_CONN_ID_LEN)
ClientIds == {ShortId, LongId}
ClientScid == <<9, 9, 9, 9>>

\* tokens PeerA may present with an Initial: a well-formed token naming PeerA, and
\* a token minted for PeerB
Tokens == {mint_token(LongId, PeerA), mint_token(LongId, PeerB)}

\* the client traffic arriving at listener l: a first Initial carries the client's
\* long id, with a supported or an unsupported version and no token; later
\* datagrams carry a client id or a server-chosen id learnt from a Retry
ClientDatagrams(l) ==
    LET dcids == ClientIds \cup known[l]
    IN  {Malformed(PeerA),
         InitialPkt(PeerA, <<26, 42, 58, 74>>, LongId, ClientScid, <<>>),
         InitialPkt(PeerA, PROTOCOL_VERSION, LongId, ClientScid, <<>>)}
        \cup {InitialPkt(PeerA, PROTOCOL_VERSION, d, ClientScid, t) :
                d \in dcids, t \in Tokens}
        \cup {ShortPkt(PeerA, d) : d \in dcids}

\* the datagrams that may arrive at listener l: the clients talk to server
\* (port 4443); server1 (port 4567) sees only datagrams that do not parse
Datagrams(l) == IF l = 0 THEN ClientDatagrams(l) ELSE {Malformed(PeerA)}

\* the engine's possible answers to one ingest
EngineAnswers ==
    {[ingest |-> "ok", closed |-> FALSE, outq |-> q] : q \in 0..MaxOut}
    \cup {[ingest |-> r, closed |-> c, outq |-> 0] :
            r \in {"ok", "err"}, c \in BOOLEAN} 

NoAnswer == [ingest |-> "ok", closed |-> FALSE, outq |-> 0]

----------------------------------------------------------------------------
(* The listeners and the multiplexer *)

EmptyMap == [k \in {} |-> 0]

NoPass ==
    [l |-> 0, dgram |-> NoDgram, route |-> "none", gate |-> "none", key |-> <<>>,
     ingest |-> "none", sent |-> <<>>, replied |-> 0, pulled |-> 0, dropped |-> 0,
     wrote |-> FALSE, closed_called |-> {}, removed |-> {}, added |-> {},
     sending_before |-> FALSE, gc_reg |-> EmptyMap, send_failed |-> {}]

\* EchoServer::new, twice, and main about to call server.recv()
InitServer ==
    /\ pc = [at |-> "recv", l |-> 0, boot |-> TRUE]
    /\ recving = [l \in Listeners |-> FALSE]
    /\ sending = [l \in Listeners |-> FALSE]
    /\ recv_op = [l \in Listeners |-> 0]
    /\ send_op = [l \in Listeners |-> 0]
    /\ recv_event = [l \in Listeners |-> FALSE]
    /\ send_event = [l \in Listeners |-> FALSE]
    /\ recv_err = [l \in Listeners |-> FALSE]
    /\ fired = <<>>
    /\ out = [l \in Listeners |-> EmptyOut]
    /\ send_len = [l \in Listeners |-> 0]
    /\ clients = [l \in Listeners |-> EmptyMap]
    /\ conn_id_seed = [l \in Listeners |-> SeedOf(l)]
    /\ known = [l \in Listeners |-> {}]
    /\ pass = NoPass

\* the listener's state as the pass works on it, with the pass's record
Work(l, budget) ==
    [clients |-> clients[l], out |-> out[l], send_len |-> send_len[l],
     sending |-> sending[l], send_op |-> send_op[l], known |-> known[l],
     budget |-> budget, ret |-> TRUE, sent |-> <<>>, replied |-> 0, pulled |-> 0,
     dropped |-> 0, wrote |-> FALSE, closed_called |-> {}, route |-> "none",
     gate |-> "none", key |-> <<>>, ingest |-> "none", removed |-> {},
     gc_reg |-> clients[l], send_failed |-> {}]

\* recv(), lines 184-200: the byte count is taken, then process_packets and
\* send_packets run on datagram d
RunPass(l, d, budget) ==
    \E w \in {Work(l, budget)} :
    \E dry \in {process_packets(w, conn_id_seed[l], d, NoAnswer)} :
    \E eng \in IF dry.ingest = "none" THEN {NoAnswer} ELSE EngineAnswers :
    \E s1 \in {process_packets(w, conn_id_seed[l], d, eng)} :
    \E keys \in {DOMAIN s1.clients} :
        /\ Cardinality(keys) <= MaxClients
        /\ \E order \in Orders(keys), failing \in SUBSET keys :
           \E s2 \in {send_packets(s1, order, failing)} :
                /\ clients' = [clients EXCEPT ![l] = s2.clients]
                /\ out' = [out EXCEPT ![l] = s2.out]
                /\ send_len' = [send_len EXCEPT ![l] = s2.send_len]
                /\ sending' = [sending EXCEPT ![l] = s2.sending]
                /\ send_op' = [send_op EXCEPT ![l] = s2.send_op]
                /\ known' = [known EXCEPT ![l] = s2.known]
                /\ pass' = [l |-> l, dgram |-> d, route |-> s2.route,
                            gate |-> s2.gate, key |-> s2.key,
                            ingest |-> s2.ingest, sent |-> s2.sent,
                            replied |-> s2.replied,
                            pulled |-> s2.pulled, dropped |-> s2.dropped,
                            wrote |-> s2.wrote,
                            closed_called |-> s2.closed_called,
                            removed |-> s2.removed,
                            added |-> keys \ DOMAIN clients[l],
                            sending_before |-> sending[l],
                            gc_reg |-> s2.gc_reg,
                            send_failed |-> s2.send_failed]

\* main is at the top of the loop of listener l's recv()
InRecv(l) == pc.at = "recv" /\ pc.l = l

\* where recv() returns to: main line 632, or the wait of the loop after arm l
Return(l) ==
    IF pc.boot /\ l = 0 THEN [at |-> "recv", l |-> 1, boot |-> TRUE]
    ELSE [at |-> "wait", l |-> l, boot |-> FALSE]

\* the handles h taken out of the signaled ones
Consume(h) == SelectSeq(fired, LAMBDA x : x # h)

\* recv(): recvfrom finds no datagram, WSARecvFrom is left pending
RecvFromPending_unmarked(l) ==
    /\ InRecv(l)
    /\ ~recving[l]
    /\ recv_op' = [recv_op EXCEPT ![l] = @ + 1]
    /\ recv_err' = [recv_err EXCEPT ![l] = FALSE]
    /\ pc' = Return(l)
    /\ UNCHANGED <<recving, sending, send_op, recv_event, send_event, fired, out,
                   send_len, clients, conn_id_seed, known, pass, tok>>

RecvFromPending(l) ==
    /\ InRecv(l)
    /\ ~recving[l]
    /\ recving' = [recving EXCEPT ![l] = TRUE]
    /\ recv_op' = [recv_op EXCEPT ![l] = @ + 1]
    /\ recv_err' = [recv_err EXCEPT ![l] = FALSE]
    /\ pc' = Return(l)
    /\ UNCHANGED <<sending, send_op, recv_event, send_event, fired, out, send_len,
                   clients, conn_id_seed, known, pass, tok>>

\* recv(): WSARecvFrom fails with an error other than WSA_IO_PENDING, recvfrom panics
RecvFromFails(l) ==
    /\ InRecv(l)
    /\ ~recving[l]
    /\ pc' = [at |-> "abort", l |-> l, boot |-> pc.boot]
    /\ UNCHANGED <<recving, sending, recv_op, send_op, recv_event, send_event,
                   recv_err, fired, out, send_len, clients, conn_id_seed, known,
                   pass, tok>>

\* recv(): recvfrom completes at once with datagram d, which is then processed
RecvFromImmediate(l, d, budget) ==
    /\ InRecv(l)
    /\ ~recving[l]
    /\ recv_err' = [recv_err EXCEPT ![l] = FALSE]
    /\ RunPass(l, d, budget)
    /\ pc' = [pc EXCEPT !.at = "passed"]
    /\ UNCHANGED <<recving, recv_op, recv_event, send_event, fired, conn_id_seed,
                   tok>>

\* recv() entered on the receive signal: the result of WSAGetOverlappedResult is
\* not looked at and cbTransfer, 0 before the call, becomes recv_len; the datagram d
\* the receive left in buf is processed, an empty one if the receive failed
RecvCompleted(l, d, budget) ==
    /\ InRecv(l)
    /\ recving[l]
    /\ recv_op[l] = 0
    /\ recv_err[l] => ~d.hdr_ok
    /\ recving' = [recving EXCEPT ![l] = FALSE]
    /\ RunPass(l, d, budget)
    /\ pc' = [pc EXCEPT !.at = "passed"]
    /\ UNCHANGED <<recv_op, recv_event, send_event, recv_err, fired, conn_id_seed,
                   tok>>

\* recv(): the end of the loop body, back to its top
RecvLoop(l) ==
    /\ pc.at = "passed"
    /\ pc.l = l
    /\ pc' = [pc EXCEPT !.at = "recv"]
    /\ pass' = NoPass
    /\ UNCHANGED <<recving, sending, recv_op, send_op, recv_event, send_event,
                   recv_err, fired, out, send_len, clients, conn_id_seed, known, tok>>

\* the handles array of main: recv of server, recv of server1, send of server,
\* send of server1
Signaled ==
    {l : l \in {x \in Listeners : recv_event[x]}}
    \cup {2 + l : l \in {x \in Listeners : send_event[x]}}

\* WaitForMultipleObjects(4, handles, false, INFINITE): the smallest signaled index
WaitForMultipleObjects == CHOOSE i \in Signaled : \A j \in Signaled : i <= j

\* a completion wakes main at once when it is blocked in the wait: no further
\* completion is signaled between the wake and the dispatch
Woken == pc.at = "wait" /\ Signaled # {}

\* the system completes the pending receive, with a datagram or with an error, and
\* signals the event
WSARecvCompletes(l, ok) ==
    /\ ~Woken
    /\ recv_op[l] > 0
    /\ recv_op' = [recv_op EXCEPT ![l] = @ - 1]
    /\ recv_event' = [recv_event EXCEPT ![l] = TRUE]
    /\ recv_err' = [recv_err EXCEPT ![l] = ~ok]
    /\ fired' = Append(fired, l)
    /\ UNCHANGED <<pc, recving, sending, send_op, send_event, out, send_len,
                   clients, conn_id_seed, known, pass, tok>>

\* the system completes the pending send and signals the event
WSASendCompletes(l) ==
    /\ ~Woken
    /\ send_op[l] > 0
    /\ send_op' = [send_op EXCEPT ![l] = @ - 1]
    /\ send_event' = [send_event EXCEPT ![l] = TRUE]
    /\ fired' = Append(fired, 2 + l)
    /\ UNCHANGED <<pc, recving, sending, recv_op, recv_event, recv_err, out,
                   send_len, clients, conn_id_seed, known, pass, tok>>

\* main, arms 0 and 1: the receive signal of listener l is consumed, recv() entered
MuxRecv(l) ==
    /\ pc.at = "wait"
    /\ Signaled # {}
    /\ WaitForMultipleObjects = l
    /\ recv_event' = [recv_event EXCEPT ![l] = FALSE]
    /\ fired' = Consume(l)
    /\ pc' = [at |-> "recv", l |-> l, boot |-> FALSE]
    /\ UNCHANGED <<recving, sending, recv_op, send_op, send_event, recv_err, out,
                   send_len, clients, conn_id_seed, known, pass, tok>>

\* main, arms 2 and 3: the send signal of listener l is consumed, send_finish() runs
MuxSendFinish_reparse(l) ==
    /\ pc.at = "wait"
    /\ Signaled # {}
    /\ WaitForMultipleObjects = 2 + l
    /\ send_event' = [send_event EXCEPT ![l] = FALSE]
    /\ fired' = Consume(2 + l)
    /\ sending' = [sending EXCEPT ![l] = FALSE]
    /\ recving' = [recving EXCEPT ![l] = FALSE]
    /\ pc' = [at |-> "wait", l |-> 2 + l, boot |-> FALSE]
    /\ UNCHANGED <<recv_op, send_op, recv_event, recv_err, out, send_len,
                   clients, conn_id_seed, known, pass, tok>>

MuxSendFinish(l) ==
    /\ pc.at = "wait"
    /\ Signaled # {}
    /\ WaitForMultipleObjects = 2 + l
    /\ send_event' = [send_event EXCEPT ![l] = FALSE]
    /\ fired' = Consume(2 + l)
    /\ IF sending[l]
       THEN /\ sending' = [sending EXCEPT ![l] = FALSE]
            /\ pc' = [at |-> "wait", l |-> 2 + l, boot |-> FALSE]
       ELSE /\ sending' = sending
            /\ pc' = [at |-> "panic", l |-> l, boot |-> FALSE]
    /\ UNCHANGED <<recving, recv_op, send_op, recv_event, recv_err, out, send_len,
                   clients, conn_id_seed, known, pass, tok>>

Next ==
    \/ \E l \in Listeners : RecvFromPending(l)
    \/ \E l \in Listeners : \E d \in Datagrams(l), b \in 0..MaxBurst :
            RecvFromImmediate(l, d, b)
    \/ \E l \in Listeners : \E d \in Datagrams(l), b \in 0..MaxBurst :
            RecvCompleted(l, d, b)
    \/ \E l \in Listeners : RecvLoop(l)
    \/ \E l \in Listeners : RecvFromFails(l)
    \/ \E l \in Listeners : \E ok \in BOOLEAN : WSARecvCompletes(l, ok)
    \/ \E l \in Listeners : WSASendCompletes(l)
    \/ \E l \in Listeners : MuxRecv(l)
    \/ \E l \in Listeners : MuxSendFinish(l)

\* traffic that keeps both listeners receiving and replying without a connection:
\* a datagram that does not parse, and a short-header packet for an unknown id
MuxDatagrams(l) == {Malformed(PeerA), ShortPkt(PeerA, ShortId)}

NextMux ==
    \/ \E l \in Listeners : RecvFromPending(l)
    \/ \E l \in Listeners : RecvFromFails(l)
    \/ \E l \in Listeners : \E d \in MuxDatagrams(l), b \in 0..MaxBurst :
            RecvFromImmediate(l, d, b)
    \/ \E l \in Listeners : \E d \in MuxDatagrams(l), b \in 0..MaxBurst :
            RecvCompleted(l, d, b)
    \/ \E l \in Listeners : RecvLoop(l)
    \/ \E l \in Listeners : \E ok \in BOOLEAN : WSARecvCompletes(l, ok)
    \/ \E l \in Listeners : WSASendCompletes(l)
    \/ \E l \in Listeners : MuxRecv(l)
    \/ \E l \in Listeners : MuxSendFinish(l)

Init == InitServer /\ InitTok

Spec == Init /\ [][Next]_vars

\* both listeners under the traffic of MuxDatagrams
SpecMux == Init /\ [][NextMux]_vars

\* the steps of main's single thread under the traffic of MuxDatagrams: a running
\* thread takes its next step, so these are weakly fair together
MainStep ==
    \/ \E l \in Listeners : RecvFromPending(l)
    \/ \E l \in Listeners : \E d \in MuxDatagrams(l), b \in 0..MaxBurst :
            RecvFromImmediate(l, d, b)
    \/ \E l \in Listeners : \E d \in MuxDatagrams(l), b \in 0..MaxBurst :
            RecvCompleted(l, d, b)
    \/ \E l \in Listeners : RecvLoop(l)
    \/ \E l \in Listeners : MuxRecv(l)
    \/ \E l \in Listeners : MuxSendFinish(l)

\* SpecMux with main always taking its next step and the system completing every
\* pending send; when datagrams arrive is left open
SpecLive ==
    /\ Init
    /\ [][NextMux]_vars
    /\ WF_vars(MainStep)
    /\ \A l \in Listeners : WF_vars(WSASendCompletes(l))

SpecToken == Init /\ [][NextToken /\ UNCHANGED srv_vars]_vars

----------------------------------------------------------------------------
(* Claims about the retry token *)

\* C7: a token minted for header destination id d and sender a, presented
\* unaltered from the same sender IP, validates to exactly d.
C7_RoundTrip ==
    (tok.pc = "validated" /\ tok.intact /\ tok.from.ip = tok.src.ip)
        => tok.result = Some(tok.dcid)

\* C7 witness: an unaltered token for a 20-byte id was validated from its IPv6 minter
C7_Witness ==
    /\ tok.pc = "validated" /\ tok.intact /\ tok.from.ip = tok.src.ip
    /\ tok.from.port # tok.src.port
    /\ tok.src.ip.fam = "V6" /\ Len(tok.dcid) = MAX_CONN_ID_LEN
    /\ tok.result = Some(tok.dcid)

\* C8 as claimed: a token whose embedded IP is not the presenter's IP is rejected
C8_MismatchRejected ==
    (tok.pc = "validated" /\ tok.from.ip # tok.src.ip) => tok.result = None

----------------------------------------------------------------------------
(* Claims about the listeners *)

\* a pass of recv() (process_packets, then send_packets) has just run
Passed == pc.at = "passed"

\* the keys of the registry when that pass began
KeysBefore == (DOMAIN clients[pass.l] \cup pass.removed) \ pass.added

\* the routed identifier of the datagram of that pass
PassRouted == RoutedId(conn_id_seed[pass.l], pass.dgram.dcid)

\* C1 as claimed: while a WSASendTo on out is in flight, neither handle_handshake
\* nor the engine's send call of send_packets writes into out.
C1_NoWriteWhileInFlight == Passed => ~pass.wrote

\* C2: at most one overlapped receive and one overlapped send is outstanding per
\* listener, an outstanding one is flagged by recving / sending, and no sendto of a
\* pass was issued while sending was set.
C2_OneInFlight ==
    /\ \A l \in Listeners :
        /\ recv_op[l] <= 1 /\ (recv_op[l] = 1 => recving[l])
        /\ send_op[l] <= 1 /\ (send_op[l] = 1 => sending[l])
    /\ \A i \in DOMAIN pass.sent : ~pass.sent[i].busy

\* C2 witness: a Retry was due while the earlier send was still outstanding, and
\* the pass issued no sendto
C2_Witness ==
    /\ Passed /\ pass.sending_before /\ pass.gate = "StatelessRetry"
    /\ send_op[pass.l] = 1 /\ pass.sent = <<>>

\* C3 as claimed: every datagram send_packets pulls from an engine handle is handed
\* to the socket, and nothing is pulled once the send slot is in flight.
C3_NothingDiscarded ==
    Passed => (pass.dropped = 0 /\ pass.pulled + pass.replied = Len(pass.sent))

\* C4 as claimed: whatever the send slot's state, a first-contact Initial with an
\* unsupported version gets exactly one version negotiation, one with a supported
\* version and an empty token exactly one Retry, and no entry is created.
C4_OneReplyAnySlot ==
    (Passed /\ pass.gate \in {"VersionNegotiation", "StatelessRetry"}) =>
        /\ pass.replied = 1
        /\ Len(pass.sent) >= 1
        /\ pass.sent[1].to = pass.dgram.from
        /\ pass.sent[1].buf.kind =
              (IF pass.gate = "VersionNegotiation" THEN "vn" ELSE "retry")
        /\ pass.added = {}

\* C5 as claimed: an accepted Initial adds exactly one entry, keyed by the routed
\* identifier of the header's destination id.
C5_KeyIsRoutedId ==
    (Passed /\ pass.gate = "Ok") => pass.added = {PassRouted}

\* C5 amended: an accepted Initial adds exactly one entry, keyed by the header's
\* destination id itself, and the datagram is given to that entry.
C5_KeyIsHeaderDcid ==
    (Passed /\ pass.gate = "Ok") =>
        (pass.added = {pass.dgram.dcid} /\ pass.key = pass.dgram.dcid)

\* C5 witness: an Initial carrying the id of an earlier Retry was accepted and its
\* entry is in the registry
C5_Witness ==
    /\ Passed /\ pass.gate = "Ok"
    /\ pass.dgram.dcid \in known[pass.l]
    /\ pass.dgram.dcid \in DOMAIN clients[pass.l]

\* C6 as claimed: a datagram that does not parse, a non-Initial for an unknown id, an
\* Initial with an invalid token or with a destination id of the wrong length gets
\* no reply and creates no entry.
C6_NoReplyNoState ==
    (Passed /\ (pass.route = "badhdr" \/ pass.gate = "ProtocolError")) =>
        (pass.replied = 0 /\ pass.added = {})

\* C9: a parsed datagram goes to the entry under its raw destination id if that is
\* a key, else to the entry under its routed identifier if that is a key, and to
\* handle_handshake exactly when neither is; a datagram that resolves adds no entry.
C9_LookupOrder ==
    (Passed /\ pass.dgram.hdr_ok) =>
        LET raw == pass.dgram.dcid \in KeysBefore
            routed == PassRouted \in KeysBefore
        IN  /\ raw => (pass.route = "raw" /\ pass.key = pass.dgram.dcid)
            /\ (~raw /\ routed) => (pass.route = "routed" /\ pass.key = PassRouted)
            /\ (pass.route = "handshake") <=> (~raw /\ ~routed)
            /\ (raw \/ routed) => (pass.gate = "none" /\ pass.added = {})

\* C9 witness: the raw id and the routed identifier were both keys, and the entry
\* under the raw id got the datagram
C9_Witness ==
    /\ Passed /\ pass.dgram.hdr_ok
    /\ pass.dgram.dcid \in KeysBefore /\ PassRouted \in KeysBefore
    /\ pass.route = "raw" /\ pass.ingest # "none"

\* C10 as claimed: while the entry accepted under the server-chosen id D (the routed
\* identifier of the client's original id O) is live, a datagram carrying D and a
\* datagram carrying O both resolve to that entry.
C10_BothIdsOneEntry ==
    \A O \in ClientIds :
        LET D == RoutedId(conn_id_seed[0], O)
        IN  (Passed /\ pass.l = 0 /\ pass.dgram.hdr_ok /\ D \in KeysBefore
             /\ pass.dgram.dcid \in {O, D}) => pass.key = D

----------------------------------------------------------------------------
(* Claims about the collection of closed connections *)

\* the registry the collection step of the pass started from, its keys, and the
\* keys whose handle reported closed
GcIn == DOMAIN pass.gc_reg
GcClosed == {k \in GcIn : is_closed(pass.gc_reg[k])}

\* C11: the registry is what one collection step leaves of the registry it started
\* from, and a second collection step, with no engine call in between, leaves the
\* same registry.
C11_CollectIdempotent ==
    Passed =>
        /\ clients[pass.l] = retain(pass.gc_reg)
        /\ retain(retain(pass.gc_reg)) = retain(pass.gc_reg)

\* C11 witness: the collection of a pass removed an entry and kept another
C11_Witness ==
    Passed /\ pass.removed # {} /\ DOMAIN clients[pass.l] # {}

\* C12: the collection step of a pass removes exactly the entries whose handle
\* reports closed when it runs, and every other entry stays, unaltered, under its
\* key.
C12_CollectExactlyClosed ==
    Passed =>
        /\ pass.removed = GcClosed
        /\ DOMAIN clients[pass.l] = GcIn \ GcClosed
        /\ \A k \in GcIn \ GcClosed : clients[pass.l][k] = pass.gc_reg[k]

\* C12 witness: the engine reported one connection closed, the collection removed
\* it and left the other entry, which is not closed
C12_Witness ==
    /\ Passed /\ GcClosed = {pass.key} /\ pass.ingest # "none"
    /\ \E k \in DOMAIN clients[pass.l] :
          k # pass.key /\ k \in KeysBefore /\ ~is_closed(clients[pass.l][k])

----------------------------------------------------------------------------
(* Claims about failures *)

\* C13 as claimed: an overlapped receive that completed with an error is fatal to
\* the listener: recv() never goes on to process_packets and send_packets with the
\* byte count of a failed receive.
C13_FailedReceiveNotProcessed ==
    Passed => ~recv_err[pass.l]

\* C14 as claimed: close is invoked on exactly the connections for which the engine
\* failed in this pass, whether in its ingest or in producing a datagram to send.
C14_EngineFailureCloses ==
    Passed =>
        pass.closed_called =
            pass.send_failed \cup (IF pass.ingest = "err" THEN {pass.key} ELSE {})

\* C14 amended: close is invoked on exactly the connections whose production of an
\* outgoing datagram failed in this pass, a failed ingest invokes none, and the
\* connections whose send did not fail and that got no datagram stay in the
\* registry in the state they were in.
C14_SendFailureCloses ==
    [][(pc.at = "recv" /\ pc'.at = "passed") =>
          LET l == pc.l
              p == pass'
          IN  /\ p.closed_called = p.send_failed
              /\ \A k \in p.send_failed : p.gc_reg[k].st # "open"
              /\ \A k \in DOMAIN clients[l] \ (p.send_failed \cup {p.key}) :
                    /\ k \in DOMAIN clients'[l]
                    /\ clients'[l][k].st = clients[l][k].st
                    /\ clients'[l][k].peer = clients[l][k].peer]_vars

\* C14 witness: the ingest failed for one connection and the send for another;
\* close was invoked on the second only, and the first is still open
C14_Witness ==
    /\ Passed /\ pass.ingest = "err"
    /\ pass.send_failed # {} /\ pass.key \notin pass.send_failed
    /\ pass.closed_called = pass.send_failed
    /\ pass.key \in DOMAIN clients[pass.l]
    /\ clients[pass.l][pass.key].st = "open"

\* C17: when the ingest fails for a datagram routed to an existing connection, close
\* is not invoked on it unless its send fails too, and its entry stays in the
\* registry unless the engine reports the connection closed.
C17_IngestErrorKeepsEntry ==
    (Passed /\ pass.ingest = "err" /\ pass.route \in {"raw", "routed"}) =>
        /\ pass.key \in pass.closed_called => pass.key \in pass.send_failed
        /\ pass.key \notin GcClosed =>
              /\ pass.key \in DOMAIN clients[pass.l]
              /\ pass.key \notin pass.send_failed =>
                    clients[pass.l][pass.key].st = pass.gc_reg[pass.key].st

\* C17 witness: the ingest failed for a datagram that resolved by its routed
\* identifier, no close was invoked and the open entry is in the registry
C17_Witness ==
    /\ Passed /\ pass.ingest = "err" /\ pass.route = "routed"
    /\ pass.closed_called = {}
    /\ pass.key \in DOMAIN clients[pass.l]
    /\ clients[pass.l][pass.key].st = "open"

\* C18: when a receive pass has finished, whatever the datagram's outcome, the
\* registry of the listener holds no entry whose handle reports closed.
C18_NoClosedAfterPass ==
    Passed =>
        /\ \A k \in DOMAIN clients[pass.l] : ~is_closed(clients[pass.l][k])
        /\ GcClosed \cap DOMAIN clients[pass.l] = {}

\* C18 witness: a connection reported closed by a failed ingest, while the send slot
\* was busy, is gone at the end of the pass
C18_Witness ==
    /\ Passed /\ pass.ingest = "err" /\ pass.sending_before
    /\ GcClosed = {pass.key} /\ pass.key \notin DOMAIN clients[pass.l]

----------------------------------------------------------------------------
(* Claims about the multiplexer *)

\* C15: the step that consumes the send signal of listener l happens at the wait,
\* clears sending of l and nothing else: the registries, the receive slots, the
\* buffers and the record of the last pass are as before.
C15_SendFinishFrame ==
    [][\A l \in Listeners :
          (send_event[l] /\ ~send_event'[l]) =>
              /\ pc.at = "wait"
              /\ WaitForMultipleObjects = 2 + l
              /\ sending' = [sending EXCEPT ![l] = FALSE]
              /\ send_event' = [send_event EXCEPT ![l] = FALSE]
              /\ UNCHANGED <<recving, recv_op, send_op, recv_event, recv_err, out,
                             send_len, clients, conn_id_seed, known, pass>>]_vars

\* C15 witness: send_finish of server was the arm main ran last; server has
\* connections and its receive is still outstanding
C15_Witness ==
    /\ pc.at = "wait" /\ pc.l = 2
    /\ ~sending[0] /\ recving[0] /\ DOMAIN clients[0] # {}

\* C16 as claimed: when main is at the wait with signals set, the signal it
\* dispatches is the one that was signaled first.
C16_FirstFiredFirst ==
    (pc.at = "wait" /\ fired # <<>>) => WaitForMultipleObjects = Head(fired)

\* C19: the send signal of a listener is set only while its sending flag is set, so
\* assert!(self.sending) never fails.
C19_AssertHolds ==
    /\ pc.at # "panic"
    /\ \A l \in Listeners : send_event[l] => (sending[l] /\ send_op[l] = 0)

\* C19 witness: send_finish of server1 was the arm main ran last, while server
\* has a send outstanding and a receive signaled
C19_Witness ==
    /\ pc.at = "wait" /\ pc.l = 3 /\ ~sending[1]
    /\ sending[0] /\ recv_event[0]

\* C20: while main is at the wait, every listener has exactly one receive issued and
\* not yet taken by recv(), flagged by recving; recv() is entered with recving set
\* only from the wait, after the receive completed and its signal was consumed.
C20_OneReceiveInFlight ==
    /\ pc.at = "wait" =>
          \A l \in Listeners :
              /\ recving[l]
              /\ recv_op[l] + (IF recv_event[l] THEN 1 ELSE 0) = 1
    /\ (pc.at = "recv" /\ recving[pc.l]) =>
          (~pc.boot /\ recv_op[pc.l] = 0 /\ ~recv_event[pc.l])

\* C20 witness: main is at the wait after send_finish of server1; the receive of
\* server has completed and that of server1 is pending
C20_Witness ==
    /\ pc.at = "wait" /\ pc.l = 3
    /\ recving[0] /\ recv_event[0] /\ recving[1] /\ recv_op[1] = 1

\* C21 as claimed: once the send signal of a listener has fired, send_finish is
\* eventually dispatched for it and its sending flag is cleared, however receives
\* keep completing (unless the process has ended in a panic before).
C21_SendEventuallyFinalized ==
    \A l \in Listeners :
        send_event[l] ~> (~sending[l] \/ pc.at \in {"abort", "panic"})

====
